---- MODULE Spec2Model ----
(***************************************************************************)
(* Model of src/funciones_sentinel_2.py: the Copernicus catalogue query    *)
(* builder and the eodata bucket downloader.                               *)
(*                                                                         *)
(* A Python str is a sequence of one-character strings, so that slicing,   *)
(* startswith, os.path.join, os.path.basename and the regular expression   *)
(* search are computed character by character.                             *)
(***************************************************************************)
EXTENDS Integers, Sequences, FiniteSets, TLC

VARIABLES
    pc,          \* position of the running function
    string,      \* remove_prefix: its argument
    ret,         \* remove_prefix: value returned by the first call
    ret2,        \* remove_prefix: value returned when applied to ret
    nsegs,       \* number of segments the argument was built from
    path,        \* extract_imagename: its argument
    found,       \* extract_imagename: what the call returned or raised
    npads,       \* number of segments added around the argument
    args,        \* get_copernicus_image_metadata: its arguments
    query_url,   \* get_copernicus_image_metadata: the URL it requests
    df,          \* the table of metadata rows
    stdout,      \* the lines printed so far
    start_row,   \* download_copernicus_images: its start_row argument
    target_directory,  \* download_copernicus_images: its target_directory
    consumed,    \* rows of df["S3Path"][start_row:] consumed by the loop
    s3path,      \* the loop's s3path, after remove_prefix
    files,       \* download: the keys the object loop iterates over
    pos,         \* download: position of the object loop in files
    fs,          \* local files: path -> key of the object whose bytes it holds
    dirs,        \* local directories
    calls,       \* requests to the bucket and the file system, in order
    outcome,     \* per row taken by the loop: "ok" or the exception caught
    faults,      \* requests to the bucket that have failed so far
    exc          \* the exception that left download_copernicus_images, or ""

vars == <<pc, string, ret, ret2, nsegs, path, found, npads,
          args, query_url, df, stdout, start_row, target_directory, consumed,
          s3path, files, pos, fs, dirs, calls, outcome, faults, exc>>

loopVars == <<start_row, target_directory, consumed, s3path, files, pos, fs, dirs,
              calls, outcome, faults, exc>>

prefixVars == <<string, ret, ret2, nsegs>>
nameVars == <<path, found, npads>>
queryVars == <<args, query_url>>

None == <<"None">>

\* The outcome of a call: the value returned, or the exception raised.
Return(v) == [exc |-> "", val |-> v]
Raise(e) == [exc |-> e, val |-> None]


\* pd.DataFrame.from_dict(value): one column per attribute of the records,
\* so a frame made from no record has no column at all.  Every record of
\* the catalogue carries S3Path, the one attribute followed here.
DataFrame_from_dict(value) ==
    [columns |-> IF value = <<>> THEN {} ELSE {"S3Path"}, S3Path |-> value]

(***************************************************************************)
(* str helpers                                                             *)
(***************************************************************************)
\* str.startswith(prefix)
startswith(s, prefix) ==
    /\ Len(s) >= Len(prefix)
    /\ SubSeq(s, 1, Len(prefix)) = prefix

\* s[n:]
SliceFrom(s, n) == SubSeq(s, n + 1, Len(s))

(***************************************************************************)
(* remove_prefix                                                           *)
(***************************************************************************)
EODATA == <<"/","e","o","d","a","t","a","/">>

\* a slice taken without the startswith test
remove_prefix_unguarded(s, prefix) == SliceFrom(s, Len(prefix))

remove_prefix(s, prefix) ==
    IF startswith(s, prefix) THEN SliceFrom(s, Len(prefix)) ELSE s

(***************************************************************************)
(* SpecPrefix: remove_prefix applied once and twice to bounded paths       *)
(***************************************************************************)
MaxSegs == 3

PathSegments == { EODATA, <<"e","o","d","a","t","a","/">>, <<"/">>, <<"S","e","n","t","i","n","e","l","-","2">> }

PrefixInit ==
    /\ pc = "build"
    /\ string = <<>>
    /\ ret = None
    /\ ret2 = None
    /\ nsegs = 0
    /\ path = None
    /\ found = None
    /\ npads = 0
    /\ args = None
    /\ query_url = None
    /\ df = DataFrame_from_dict(<<>>)
    /\ stdout = <<>>
    /\ start_row = 0
    /\ target_directory = <<>>
    /\ consumed = 0
    /\ s3path = None
    /\ files = <<>>
    /\ pos = 0
    /\ fs = <<>>
    /\ dirs = {}
    /\ calls = <<>>
    /\ outcome = <<>>
    /\ faults = 0
    /\ exc = ""

AddSegment ==
    /\ pc = "build"
    /\ nsegs < MaxSegs
    /\ \E seg \in PathSegments : string' = string \o seg
    /\ nsegs' = nsegs + 1
    /\ UNCHANGED <<pc, ret, ret2, nameVars, queryVars, df, stdout, loopVars>>

StripOnce ==
    /\ pc = "build"
    /\ ret' = remove_prefix(string, EODATA)
    /\ pc' = "once"
    /\ UNCHANGED <<string, ret2, nsegs, nameVars, queryVars, df, stdout, loopVars>>

StripTwice ==
    /\ pc = "once"
    /\ ret2' = remove_prefix(ret, EODATA)
    /\ pc' = "twice"
    /\ UNCHANGED <<string, ret, nsegs, nameVars, queryVars, df, stdout, loopVars>>

PrefixNext == AddSegment \/ StripOnce \/ StripTwice

SpecPrefix == PrefixInit /\ [][PrefixNext]_vars

\* C2 (as stated): a path that does not start with "/eodata/" is returned
\* unchanged, and for every path stripping twice equals stripping once.
C2_Idempotent ==
    /\ pc \in {"once", "twice"} /\ ~startswith(string, EODATA) => ret = string
    /\ pc = "twice" => ret2 = ret

\* C2 (amended): a path that does not start with "/eodata/" is returned
\* unchanged; a path that starts with it loses exactly one copy of it; and
\* stripping twice equals stripping once exactly when the once-stripped path
\* does not itself start with "/eodata/" (otherwise the second call removes
\* one more copy).
C2_StripsOneCopy ==
    /\ pc \in {"once", "twice"} =>
          /\ ~startswith(string, EODATA) => ret = string
          /\ startswith(string, EODATA) => EODATA \o ret = string
    /\ pc = "twice" =>
          /\ ~startswith(ret, EODATA) => ret2 = ret
          /\ startswith(ret, EODATA) => /\ EODATA \o ret2 = ret
                                        /\ ret2 # ret

\* a path with a doubled prefix has been stripped twice
C2_Witness ==
    /\ pc = "twice"
    /\ startswith(string, EODATA \o EODATA)
    /\ ret2 # ret

(***************************************************************************)
(* extract_imagename: re.search of                                          *)
(*   (S2[AB]_MSI.{3}_\d+T\d+_N\d+_R\d+_T[a-zA-Z0-9]+)                      *)
(***************************************************************************)
DIGITS == {"0", "1", "2", "3", "4", "5", "6", "7", "8", "9"}

LETTERS ==
    {"a", "b", "c", "d", "e", "f", "g", "h", "i", "j", "k", "l", "m",
     "n", "o", "p", "q", "r", "s", "t", "u", "v", "w", "x", "y", "z",
     "A", "B", "C", "D", "E", "F", "G", "H", "I", "J", "K", "L", "M",
     "N", "O", "P", "Q", "R", "S", "T", "U", "V", "W", "X", "Y", "Z"}

ALNUM == DIGITS \cup LETTERS

\* A position in the subject is an index 1..Len(s)+1; 0 stands for "this
\* branch of the match failed".

\* a literal of the pattern, matched at position p
MatchLit(s, p, lit) ==
    IF p # 0 /\ p + Len(lit) - 1 <= Len(s) /\ SubSeq(s, p, p + Len(lit) - 1) = lit
    THEN p + Len(lit) ELSE 0

\* a character class such as [AB], matched once
MatchOne(s, p, cls) ==
    IF p # 0 /\ p <= Len(s) /\ s[p] \in cls THEN p + 1 ELSE 0

\* the dot: any character but a newline
MatchDot(s, p) ==
    IF p # 0 /\ p <= Len(s) /\ s[p] # "\n" THEN p + 1 ELSE 0

RECURSIVE RunEnd(_, _, _)
RunEnd(s, p, cls) ==
    IF p <= Len(s) /\ s[p] \in cls THEN RunEnd(s, p + 1, cls) ELSE p

\* cls+ : greedy.  Every \d+ of the pattern is followed by a literal that
\* starts with a non-digit and the final [a-zA-Z0-9]+ ends the pattern, so
\* giving characters back never turns a failed match into a match: the
\* longest run is the one the engine settles on.
MatchPlus(s, p, cls) ==
    IF p # 0 /\ RunEnd(s, p, cls) > p THEN RunEnd(s, p, cls) ELSE 0

\* The pattern tried at start position i: the position just past the match,
\* or 0.
PatternAt(s, i) ==
    LET p1  == MatchLit(s, i, <<"S","2">>)
        p2  == MatchOne(s, p1, {"A", "B"})
        p3  == MatchLit(s, p2, <<"_","M","S","I">>)
        p4  == MatchDot(s, MatchDot(s, MatchDot(s, p3)))
        p5  == MatchLit(s, p4, <<"_">>)
        p6  == MatchPlus(s, p5, DIGITS)
        p7  == MatchLit(s, p6, <<"T">>)
        p8  == MatchPlus(s, p7, DIGITS)
        p9  == MatchLit(s, p8, <<"_","N">>)
        p10 == MatchPlus(s, p9, DIGITS)
        p11 == MatchLit(s, p10, <<"_","R">>)
        p12 == MatchPlus(s, p11, DIGITS)
        p13 == MatchLit(s, p12, <<"_","T">>)
    IN  MatchPlus(s, p13, ALNUM)

\* re.match: the pattern tried at the start of the subject only
re_match(s) ==
    IF PatternAt(s, 1) # 0 THEN <<1, PatternAt(s, 1)>> ELSE <<0, 0>>

\* re.search: the first start position, scanning left to right, at which the
\* pattern matches; <<start, end>> or <<0, 0>>
re_search(s) ==
    LET starts == {i \in 1..Len(s) : PatternAt(s, i) # 0}
    IN  IF starts = {} THEN <<0, 0>>
        ELSE LET i == CHOOSE k \in starts : \A m \in starts : k <= m
             IN  <<i, PatternAt(s, i)>>

\* a search that falls back to the whole path when nothing matches
extract_imagename_or_path(p) ==
    LET match == re_search(p)
    IN  IF match[1] # 0
        THEN Return(SubSeq(p, match[1], match[2] - 1))
        ELSE Return(p)

extract_imagename(p) ==
    LET match == re_search(p)
    IN  IF match[1] # 0
        THEN Return(SubSeq(p, match[1], match[2] - 1))
        ELSE Raise("ValueError")

(***************************************************************************)
(* SpecName: extract_imagename on product names, their one-character       *)
(* corruptions, and text around them                                       *)
(***************************************************************************)
MaxPads == 1

ValidName == <<"S","2","A","_","M","S","I","L","1","C","_","2","0","T","1","5","_","N","0","5","_","R","1","_","T","1","7","Q">>

CorruptChars == {"0", "T", "_", "/", "\n"}

DeleteAt(s, i) == SubSeq(s, 1, i - 1) \o SubSeq(s, i + 1, Len(s))

Names ==
    {ValidName}
    \cup {DeleteAt(ValidName, i) : i \in 1..Len(ValidName)}
    \cup {[ValidName EXCEPT ![i] = c] : i \in 1..Len(ValidName), c \in CorruptChars}

Padding == { <<"/">>, <<".","S","A","F","E","/","B","0","1",".","j","p","2">>, <<"S","2","B","_","M","S","I","L","2","A","_","1","T","2","_","N","3","_","R","4","_","T","5">>, <<"S","e","n","t","i","n","e","l","-","2","/">> }

NameInit ==
    /\ pc = "key"
    /\ path \in Names
    /\ found = None
    /\ npads = 0
    /\ string = None
    /\ ret = None
    /\ ret2 = None
    /\ nsegs = 0
    /\ args = None
    /\ query_url = None
    /\ df = DataFrame_from_dict(<<>>)
    /\ stdout = <<>>
    /\ start_row = 0
    /\ target_directory = <<>>
    /\ consumed = 0
    /\ s3path = None
    /\ files = <<>>
    /\ pos = 0
    /\ fs = <<>>
    /\ dirs = {}
    /\ calls = <<>>
    /\ outcome = <<>>
    /\ faults = 0
    /\ exc = ""

PadLeft ==
    /\ pc = "key"
    /\ npads < MaxPads
    /\ \E seg \in Padding : path' = seg \o path
    /\ npads' = npads + 1
    /\ UNCHANGED <<pc, found, prefixVars, queryVars, df, stdout, loopVars>>

PadRight ==
    /\ pc = "key"
    /\ npads < MaxPads
    /\ \E seg \in Padding : path' = path \o seg
    /\ npads' = npads + 1
    /\ UNCHANGED <<pc, found, prefixVars, queryVars, df, stdout, loopVars>>

Extract ==
    /\ pc = "key"
    /\ found' = extract_imagename(path)
    /\ pc' = "extracted"
    /\ UNCHANGED <<path, npads, prefixVars, queryVars, df, stdout, loopVars>>

NameNext == PadLeft \/ PadRight \/ Extract

SpecName == NameInit /\ [][NameNext]_vars

\* The naming pattern, stated on a whole word w: S2A or S2B, _MSI and three
\* characters, _digits T digits, _N digits, _R digits, _T and a tile code.
\* The three characters are any characters but a line feed, or any
\* characters at all when anyChar is TRUE.
AllIn(w, a, b, cls) == a <= b /\ \A k \in a..b : w[k] \in cls

IsNameWord(w, anyChar) ==
    /\ Len(w) >= 11
    /\ w[1] = "S" /\ w[2] = "2" /\ w[3] \in {"A", "B"}
    /\ SubSeq(w, 4, 7) = <<"_","M","S","I">>
    /\ anyChar \/ \A k \in 8..10 : w[k] # "\n"
    /\ w[11] = "_"
    /\ \E t \in 12..Len(w) :
          /\ w[t] = "T"
          /\ AllIn(w, 12, t - 1, DIGITS)
          /\ \E n \in (t + 1)..(Len(w) - 1) :
                /\ w[n] = "_" /\ w[n + 1] = "N"
                /\ AllIn(w, t + 1, n - 1, DIGITS)
                /\ \E r \in (n + 2)..(Len(w) - 1) :
                      /\ w[r] = "_" /\ w[r + 1] = "R"
                      /\ AllIn(w, n + 2, r - 1, DIGITS)
                      /\ \E u \in (r + 2)..(Len(w) - 1) :
                            /\ w[u] = "_" /\ w[u + 1] = "T"
                            /\ AllIn(w, r + 2, u - 1, DIGITS)
                            /\ AllIn(w, u + 2, Len(w), ALNUM)

\* the <<start, end>> of every substring of s that is such a word
NameWords(s, anyChar) ==
    UNION { {<<i, j>> : j \in {e \in (i + 10)..Len(s) :
                                  IsNameWord(SubSeq(s, i, e), anyChar)}}
            : i \in {b \in 1..Len(s) : s[b] = "S"} }

Occurrences(s) == NameWords(s, FALSE)

\* what the search has to answer when occ are the substrings that match: the
\* leftmost of them (the longest one starting there), or ValueError when there
\* is none
AnswersLeftmost(occ) ==
    IF occ = {}
    THEN found = Raise("ValueError")
    ELSE /\ found.exc = ""
         /\ \E ij \in occ :
               /\ found.val = SubSeq(path, ij[1], ij[2])
               /\ \A o \in occ : ij[1] <= o[1]
               /\ \A o \in occ : o[1] = ij[1] => o[2] <= ij[2]

\* C4 (as stated): extract_imagename has exactly two outcomes: for a key that
\* contains a substring of the form S2A or S2B, _MSI + 3 characters, _digits
\* T digits, _N digits, _R digits, _T tile code, it returns that substring,
\* the leftmost; for a key that contains none it raises ValueError.
C4_ThreeCharacters ==
    pc = "extracted" => AnswersLeftmost(NameWords(path, TRUE))

\* C4 (amended): the same, the 3 characters after _MSI being any characters
\* other than a line feed, which the pattern's dot does not match: a key
\* whose only candidate has a line feed there raises ValueError.
C4_ExtractTotal ==
    pc = "extracted" => AnswersLeftmost(Occurrences(path))

\* a key in which image names start at two places was searched and the one
\* that starts first came back
C4_Witness ==
    /\ pc = "extracted"
    /\ found.exc = ""
    /\ \E o1, o2 \in Occurrences(path) :
          /\ o1[1] < o2[1]
          /\ found.val = SubSeq(path, o1[1], o1[2])
    /\ Len(found.val) < Len(path)

(***************************************************************************)
(* get_copernicus_image_metadata                                           *)
(*                                                                         *)
(* The URL is a sequence of fragments: each literal piece of the f-strings *)
(* is one fragment, each str argument is one fragment, and an int argument *)
(* is formatted into its decimal digits.  An optional argument is <<>>     *)
(* (None) or <<v>>.                                                        *)
(***************************************************************************)
DigitChar == <<"0", "1", "2", "3", "4", "5", "6", "7", "8", "9">>

\* format(n) of a non-negative int
RECURSIVE Decimal(_)
Decimal(n) ==
    IF n < 10 THEN <<DigitChar[n + 1]>>
    ELSE Decimal(n \div 10) \o <<DigitChar[(n % 10) + 1]>>

ProductsURL == "https://catalogue.dataspace.copernicus.eu/odata/v1/Products"
FilterParam == "?$filter="
IntersectsHead == "OData.CSC.Intersects(area=geography'SRID="
PolygonHead == ";POLYGON(("
PolygonTail == "))')"
StartGtHead == " and ContentDate/Start gt "
StartLtHead == " and ContentDate/Start lt "
CollectionHead == " and Collection/Name eq '"
Quote == "'"
CloudCoverHead == " and Attributes/OData.CSC.DoubleAttribute/any(att:att/Name eq 'cloudCover' and att/OData.CSC.DoubleAttribute/Value lt "
CloudCoverTail == ")"
ProductTypeHead == " and Attributes/OData.CSC.StringAttribute/any(att:att/Name eq 'productType' and att/OData.CSC.StringAttribute/Value eq '"
ProductTypeTail == "')"

\* `if x is not None:`
is_not_None(x) == x # <<>>

base_query(a) ==
    <<ProductsURL, FilterParam,
      IntersectsHead, a.srid, PolygonHead, a.polygon, PolygonTail,
      StartGtHead, a.start_date,
      StartLtHead, a.end_date,
      CollectionHead, a.collection, Quote>>

\* the cloud-cover test written `if cloud_cover:`, which 0 fails
build_query_url_truthy(a) ==
    LET q0 == base_query(a)
        q1 == IF is_not_None(a.cloud_cover) /\ a.cloud_cover[1] # 0
              THEN q0 \o <<CloudCoverHead>> \o Decimal(a.cloud_cover[1])
                      \o <<CloudCoverTail>>
              ELSE q0
    IN  IF is_not_None(a.product_type)
        THEN q1 \o <<ProductTypeHead, a.product_type[1], ProductTypeTail>>
        ELSE q1

build_query_url(a) ==
    LET q0 == base_query(a)
        q1 == IF is_not_None(a.cloud_cover)
              THEN q0 \o <<CloudCoverHead>> \o Decimal(a.cloud_cover[1])
                      \o <<CloudCoverTail>>
              ELSE q0
    IN  IF is_not_None(a.product_type)
        THEN q1 \o <<ProductTypeHead, a.product_type[1], ProductTypeTail>>
        ELSE q1

(***************************************************************************)
(* SpecQuery: one call of get_copernicus_image_metadata                    *)
(***************************************************************************)
Dates == {"2024-04-30T00:00:00.000Z", "2024-05-01T00:00:00.000Z"}

Polygons ==
    {"-66.971000 21.651000, -66.911000 20.761000,-66.043000 20.822000, -66.043000 21.611000, -86.971000 21.651000",
     "0 0, 0 1, 1 1, 0 0"}

Collections == {"SENTINEL-2", "SENTINEL-1"}

CloudCovers == {<<>>, <<0>>, <<7>>, <<30>>}

ProductTypes == {<<>>, <<"S2MSI1C">>, <<"S2MSI2A">>}

Arguments ==
    [start_date : Dates, end_date : Dates, polygon : Polygons,
     collection : Collections, cloud_cover : CloudCovers,
     product_type : ProductTypes, srid : {"4326"}]

\* what the catalogue may answer in json_response["value"]: the S3Path of
\* each record
Answers ==
    { <<>>,
      << <<"/","e","o","d","a","t","a","/","S","e","n","t","i","n","e","l","-","2","/","M","S","I","/","L","1","C","/","S","2","A","_","M","S","I","L","1","C","_","2","0","T","1","5","_","N","0","5","_","R","1","_","T","1","7","Q",".","S","A","F","E">> >> }

NoImagesLine == "No se encontraron imágenes para los criterios especificados."

QueryInit ==
    /\ pc = "query"
    /\ args \in Arguments
    /\ query_url = None
    /\ df = DataFrame_from_dict(<<>>)
    /\ stdout = <<>>
    /\ start_row = 0
    /\ target_directory = <<>>
    /\ consumed = 0
    /\ s3path = None
    /\ files = <<>>
    /\ pos = 0
    /\ fs = <<>>
    /\ dirs = {}
    /\ calls = <<>>
    /\ outcome = <<>>
    /\ faults = 0
    /\ exc = ""
    /\ string = None
    /\ ret = None
    /\ ret2 = None
    /\ nsegs = 0
    /\ path = None
    /\ found = None
    /\ npads = 0

get_copernicus_image_metadata ==
    /\ pc = "query"
    /\ query_url' = build_query_url(args)
    /\ \E value \in Answers :
          /\ df' = DataFrame_from_dict(value)
          /\ stdout' = IF value = <<>> THEN Append(stdout, <<NoImagesLine>>)
                       ELSE stdout
    /\ pc' = "returned"
    /\ UNCHANGED <<args, prefixVars, nameVars, loopVars>>

QueryNext == get_copernicus_image_metadata

SpecQuery == QueryInit /\ [][QueryNext]_vars

\* where a fragment occurs in a URL
Positions(q, fragment) == {i \in 1..Len(q) : q[i] = fragment}

Once(q, fragment) == Cardinality(Positions(q, fragment)) = 1

At(q, fragment) == CHOOSE i \in Positions(q, fragment) : TRUE

\* C5: the filter is the four base clauses (intersection, start lower bound,
\* start upper bound, collection) in that order, then exactly one cloudCover
\* clause iff cloud_cover is not None (0 included), then exactly one
\* productType clause iff product_type is not None, each independently of
\* the other, and nothing else.
C5_FilterClauses ==
    pc = "returned" =>
        LET q == query_url
            hasCloud == args.cloud_cover # <<>>
            hasType == args.product_type # <<>>
            cloudLen == IF hasCloud THEN 2 + Len(Decimal(args.cloud_cover[1])) ELSE 0
            typeLen == IF hasType THEN 3 ELSE 0
        IN  /\ q[1] = ProductsURL /\ q[2] = FilterParam
            /\ q[3] = IntersectsHead /\ q[4] = args.srid
            /\ q[6] = args.polygon
            /\ q[8] = StartGtHead /\ q[9] = args.start_date
            /\ q[10] = StartLtHead /\ q[11] = args.end_date
            /\ q[12] = CollectionHead /\ q[13] = args.collection
            /\ \A h \in {IntersectsHead, StartGtHead, StartLtHead, CollectionHead} :
                  Once(q, h)
            /\ Cardinality(Positions(q, CloudCoverHead)) = IF hasCloud THEN 1 ELSE 0
            /\ Cardinality(Positions(q, ProductTypeHead)) = IF hasType THEN 1 ELSE 0
            /\ hasCloud =>
                  /\ At(q, CloudCoverHead) = 15
                  /\ SubSeq(q, 16, 13 + cloudLen) = Decimal(args.cloud_cover[1])
            /\ hasType =>
                  /\ At(q, ProductTypeHead) = 15 + cloudLen
                  /\ q[16 + cloudLen] = args.product_type[1]
            /\ Len(q) = 14 + cloudLen + typeLen

\* a query with a cloud-cover ceiling of 0 and no product type was built
C5_Witness ==
    /\ pc = "returned"
    /\ args.cloud_cover = <<0>>
    /\ args.product_type = <<>>
    /\ Once(query_url, CloudCoverHead)

(***************************************************************************)
(* os.path and the local file system                                       *)
(***************************************************************************)
SEP == <<"/">>

\* os.path.join(a, b), POSIX
os_path_join(a, b) ==
    IF startswith(b, SEP) THEN b
    ELSE IF a = <<>> \/ a[Len(a)] = "/" THEN a \o b
    ELSE a \o SEP \o b

\* os.path.basename(p): what follows the last "/"
os_path_basename(p) ==
    LET slashes == {i \in 1..Len(p) : p[i] = "/"}
    IN  IF slashes = {} THEN p
        ELSE SliceFrom(p, CHOOSE i \in slashes : \A j \in slashes : j <= i)

\* os.makedirs(p, exist_ok=True): the directories that exist afterwards
\* because of the call, p and every ancestor of it
os_makedirs(p) ==
    {p} \cup {SubSeq(p, 1, i - 1) : i \in {j \in 2..Len(p) : p[j] = "/"}}

(***************************************************************************)
(* The eodata bucket                                                       *)
(***************************************************************************)
\* the keys of the bucket, in the order the bucket lists them
BucketKeys ==
    << <<"S","e","n","t","i","n","e","l","-","2","/",".",".",".","/","S","2","B","_","M","S","I","L","1","C","_","2","0","2","4","0","4","3","0","T","1","5","3","6","0","9","_","N","0","5","1","0","_","R","1","1","0","_","T","1","7","Q","K","A",".","S","A","F","E","/","f","i","l","e","1",".","j","p","2">>,
       <<"p","/","S","2","A","_","M","S","I","L","1","C","_","1","T","2","_","N","3","_","R","4","_","T","5","K",".","S","A","F","E","/","a","/","B","1",".","j","p","2">>,
       <<"p","/","S","2","A","_","M","S","I","L","1","C","_","1","T","2","_","N","3","_","R","4","_","T","5","K",".","S","A","F","E","/","b","/","B","1",".","j","p","2">>,
       <<"p","/","S","2","A","_","M","S","I","L","1","C","_","1","T","2","_","N","3","_","R","4","_","T","5","K",".","S","A","F","E","/","m",".","x","m","l">>,
       <<"q","/","S","2","A","_","M","S","I","L","1","C","_","1","T","2","_","N","3","_","R","4","_","T","6","K",".","S","A","F","E","/","m",".","x","m","l">>,
       <<"q","/","r","e","a","d","m","e">>,
       <<"q","/","s","/","S","2","B","_","M","S","I","L","2","A","_","1","T","2","_","N","3","_","R","4","_","T","7","K",".","S","A","F","E","/","m",".","x","m","l">> >>

\* bucket.objects.filter(Prefix=product), enumerated
Listing(product) == SelectSeq(BucketKeys, LAMBDA key : startswith(key, product))

(***************************************************************************)
(* download_copernicus_images and download                                 *)
(***************************************************************************)
MaxRows == 3

\* requests to the bucket that may fail in one run
MaxFaults == 2

\* values of the S3Path column
S3Paths ==
    { <<"/","e","o","d","a","t","a","/","S","e","n","t","i","n","e","l","-","2","/",".",".",".","/","S","2","B","_","M","S","I","L","1","C","_","2","0","2","4","0","4","3","0","T","1","5","3","6","0","9","_","N","0","5","1","0","_","R","1","1","0","_","T","1","7","Q","K","A",".","S","A","F","E","/","f","i","l","e","1",".","j","p","2">>,
      <<"/","e","o","d","a","t","a","/","p","/","S","2","A","_","M","S","I","L","1","C","_","1","T","2","_","N","3","_","R","4","_","T","5","K",".","S","A","F","E">>,
      <<"/","e","o","d","a","t","a","/","q","/">>,
      <<"S","e","n","t","i","n","e","l","-","2","/","m","i","s","s","i","n","g">> }

\* what the catalogue answered: one record per product, so no S3Path occurs
\* twice
Values ==
    UNION { {v \in [1..n -> S3Paths] : \A i, j \in 1..n : v[i] = v[j] => i = j}
            : n \in 0..MaxRows }

\* the frames get_copernicus_image_metadata returns
Tables == {DataFrame_from_dict(value) : value \in Values}

Targets == { <<>>, <<"o","u","t","/">>, <<"i","m","a","g","e","n","e","s","_","d","e","s","c","a","r","g","a","d","a","s">> }

\* seq[start:], Python slice semantics
PySliceFrom(seq, start) ==
    LET n == Len(seq)
        lo == IF start < 0
              THEN (IF n + start < 0 THEN 0 ELSE n + start)
              ELSE (IF start > n THEN n ELSE start)
    IN  SubSeq(seq, lo + 1, n)

\* enumerate(rows, start=first): the index paired with the i-th element
enumerate_from_zero(first, i) == i - 1

enumerate_index(first, i) == first + (i - 1)

\* the rows the for loop iterates over
LoopRows == PySliceFrom(df.S3Path, start_row)

\* the idx of the row the loop is at
idx == enumerate_index(start_row, consumed + 1)

\* the classes an `except Exception` clause catches, among those raised here
except_Exception(e) == e \in {"FileNotFoundError", "ValueError", "ClientError"}

Init ==
    /\ pc = "call"
    /\ df \in Tables
    /\ start_row \in 0..(MaxRows + 1)
    /\ target_directory \in Targets
    /\ consumed = 0
    /\ s3path = None
    /\ files = <<>>
    /\ pos = 0
    /\ fs = <<>>
    /\ dirs = {}
    /\ calls = <<>>
    /\ outcome = <<>>
    /\ faults = 0
    /\ exc = ""
    /\ stdout = <<>>
    /\ string = None
    /\ ret = None
    /\ ret2 = None
    /\ nsegs = 0
    /\ path = None
    /\ found = None
    /\ npads = 0
    /\ args = None
    /\ query_url = None

idleVars == <<prefixVars, nameVars, queryVars, df, start_row, target_directory>>

\* line 141: df["S3Path"] is looked up as the for statement is entered,
\* outside the try: a frame without that column raises KeyError
LoopEnter ==
    /\ pc = "call"
    /\ IF "S3Path" \in df.columns
       THEN pc' = "loop" /\ exc' = exc
       ELSE pc' = "raised" /\ exc' = "KeyError"
    /\ UNCHANGED <<idleVars, consumed, s3path, files, pos, fs, dirs, calls,
                   outcome, stdout, faults>>

\* lines 141-143: the loop takes its next row
NextRow ==
    /\ pc = "loop"
    /\ consumed < Len(LoopRows)
    /\ s3path' = remove_prefix(LoopRows[consumed + 1], EODATA)
    /\ stdout' = Append(stdout, <<"Descargando", s3path', idx>>)
    /\ pc' = "download"
    /\ UNCHANGED <<idleVars, consumed, files, pos, fs, dirs, calls, outcome, faults, exc>>

\* line 141: the rows are exhausted and the function returns
LoopEnd ==
    /\ pc = "loop"
    /\ consumed = Len(LoopRows)
    /\ pc' = "returned"
    /\ UNCHANGED <<idleVars, consumed, s3path, files, pos, fs, dirs, calls,
                   outcome, stdout, faults, exc>>

\* lines 144-147: exception e leaves download(); the except clause prints it
\* and the loop goes on, or e leaves download_copernicus_images
Handle(e) ==
    /\ outcome' = Append(outcome, e)
    /\ IF except_Exception(e)
       THEN /\ stdout' = Append(stdout, <<"Error al descargar", s3path, e>>)
            /\ consumed' = consumed + 1
            /\ pc' = "loop"
            /\ exc' = exc
       ELSE /\ pc' = "raised"
            /\ exc' = e
            /\ UNCHANGED <<stdout, consumed>>

\* download() returns and the loop goes on
RowDone ==
    /\ outcome' = Append(outcome, "ok")
    /\ consumed' = consumed + 1
    /\ pc' = "loop"
    /\ UNCHANGED <<stdout, exc>>

\* a request made while the loop is at row idx; obj is the position in files
\* of the object it is about (0 for a listing)
Call(op, obj, ok) == [row |-> idx, op |-> op, obj |-> obj, ok |-> ok]

\* whether a request to the bucket succeeds: it may fail while the run has
\* had fewer than MaxFaults failures
Responses == IF faults < MaxFaults THEN BOOLEAN ELSE {TRUE}

\* an emptiness test that never fires
listing_never_empty(listing) == FALSE

\* `if not list(files)`: the listing is empty
listing_is_empty(listing) == listing = <<>>

\* lines 60-62: the prefix is listed; an empty listing raises
\* FileNotFoundError.  The request itself may fail.
DownloadList ==
    /\ pc = "download"
    /\ \E ok \in Responses :
          /\ faults' = IF ok THEN faults ELSE faults + 1
          /\ calls' = Append(calls, Call("list", 0, ok))
          /\ IF ~ok THEN Handle("ClientError")
             ELSE IF listing_is_empty(Listing(s3path)) THEN Handle("FileNotFoundError")
             ELSE /\ pc' = "iterate"
                  /\ UNCHANGED <<stdout, consumed, outcome, exc>>
    /\ UNCHANGED <<idleVars, s3path, files, pos, fs, dirs>>

\* line 64: the for loop enumerates the collection, which lists the prefix
\* again
DownloadIterate ==
    /\ pc = "iterate"
    /\ \E ok \in Responses :
          /\ faults' = IF ok THEN faults ELSE faults + 1
          /\ calls' = Append(calls, Call("list", 0, ok))
          /\ IF ~ok
             THEN /\ Handle("ClientError")
                  /\ UNCHANGED <<files, pos>>
             ELSE /\ files' = Listing(s3path)
                  /\ IF files' = <<>>
                     THEN /\ RowDone
                          /\ pos' = 0
                     ELSE /\ pos' = 1
                          /\ pc' = "object"
                          /\ UNCHANGED <<stdout, consumed, outcome, exc>>
    /\ UNCHANGED <<idleVars, s3path, fs, dirs>>

\* where download puts the object with this key (lines 67-73)
imagepath_of(target, imagename) == os_path_join(target, imagename)

\* the whole key used as the file name
local_path_whole_key(target, imagename, key) ==
    os_path_join(imagepath_of(target, imagename), key)

local_path(target, imagename, key) ==
    os_path_join(imagepath_of(target, imagename), os_path_basename(key))

\* a download that leaves an existing file as it is
download_file_keep_existing(fsys, key, dest) == fsys @@ (dest :> key)

\* bucket.download_file(key, dest): dest holds the object's bytes, whatever
\* it held before
download_file(fsys, key, dest) == (dest :> key) @@ fsys

\* the loop goes on to the next object, or download() returns
AfterObject ==
    IF pos < Len(files)
    THEN /\ pos' = pos + 1
         /\ UNCHANGED <<pc, stdout, consumed, outcome, exc>>
    ELSE /\ RowDone
         /\ pos' = pos

\* a failed object is skipped and the loop goes on
continue_after_failure(e) == AfterObject

\* the loop stops at the failed object
stop_at_failure(e) == Handle(e) /\ pos' = pos

\* lines 65-73: one object of the listing
DownloadObject ==
    /\ pc = "object"
    /\ LET key == files[pos]
           name == extract_imagename(key)
       IN  IF name.exc # ""
           THEN /\ stop_at_failure(name.exc)
                /\ UNCHANGED <<fs, dirs, calls, faults>>
           ELSE LET imagepath == imagepath_of(target_directory, name.val)
                    dest == local_path(target_directory, name.val, key)
                IN  /\ dirs' = dirs \cup os_makedirs(imagepath)
                    /\ \E ok \in Responses :
                          /\ faults' = IF ok THEN faults ELSE faults + 1
                          /\ calls' = calls \o << Call("makedirs", pos, TRUE),
                                                  Call("download_file", pos, ok) >>
                          /\ IF ok
                             THEN /\ fs' = download_file(fs, key, dest)
                                  /\ AfterObject
                             ELSE /\ fs' = fs
                                  /\ stop_at_failure("ClientError")
    /\ UNCHANGED <<idleVars, s3path, files>>

Next == LoopEnter \/ NextRow \/ LoopEnd \/ DownloadList \/ DownloadIterate \/ DownloadObject

Spec == Init /\ [][Next]_vars

(***************************************************************************)
(* Properties of download_copernicus_images and download                   *)
(***************************************************************************)
\* The r-th row the loop takes is the row at position start_row + r - 1 of
\* the table (positions count from 0).
RowPosition(r) == start_row + r - 1

RowProduct(r) == remove_prefix(df.S3Path[RowPosition(r) + 1], EODATA)

\* the rows at positions start_row .. last
RowsFromStart ==
    IF start_row < Len(df.S3Path) THEN Len(df.S3Path) - start_row ELSE 0

\* the requests of kind op made for the row at position p
RowCalls(p, op) == {c \in 1..Len(calls) : calls[c].row = p /\ calls[c].op = op}

Range(s) == {s[i] : i \in 1..Len(s)}

\* <target>/ : the target directory as a path prefix
TargetSlash ==
    IF target_directory = <<>> \/ target_directory[Len(target_directory)] = "/"
    THEN target_directory
    ELSE target_directory \o SEP

\* the last component of a key
FileNameOf(key) ==
    CHOOSE b \in {SliceFrom(key, n) : n \in 0..Len(key)} :
        /\ "/" \notin Range(b)
        /\ b = key \/ key[Len(key) - Len(b)] = "/"

\* the keys of the bucket that contain an image name
MatchedKeys == {key \in Range(BucketKeys) : Occurrences(key) # {}}

HasImageName(key) == key \in MatchedKeys

\* per key of the bucket, what extract_imagename makes of it
NameOfKey == [key \in Range(BucketKeys) |-> extract_imagename(key)]

ImageNameOf(key) == NameOfKey[key].val

FileNameOfKey == [key \in Range(BucketKeys) |-> FileNameOf(key)]

\* <target>/<image_name>/<basename(key)>
ExpectedPath(key) == TargetSlash \o ImageNameOf(key) \o SEP \o FileNameOfKey[key]

OnDisk(key) == ExpectedPath(key) \in DOMAIN fs

\* Until it returns the function is at a place where a step is enabled: at
\* the loop head with rows left or not, in download before or between the
\* listings, or at an object of the listing.
RunsToReturn ==
    /\ pc \in {"call", "loop", "download", "iterate", "object", "returned"}
    /\ pc = "loop" => consumed <= RowsFromStart
    /\ pc \in {"download", "iterate", "object"} => consumed < RowsFromStart
    /\ pc = "object" => pos \in 1..Len(files)

\* C1: an exception raised while a row is processed never leaves
\* download_copernicus_images: the loop goes on with the next row, every row
\* from start_row on is taken, every row that raised nothing has all the
\* objects of its listing on disk, and the call returns normally.
C1_RowFailuresAreCaught ==
    /\ pc # "raised" /\ exc = ""
    /\ RunsToReturn
    /\ pc = "returned" => Len(outcome) = RowsFromStart
    /\ \A r \in 1..Len(outcome) :
          outcome[r] = "ok" =>
              \A key \in Range(Listing(RowProduct(r))) : OnDisk(key)

\* row 2 of 3 raised, rows 1 and 3 completed and are on disk
C1_Witness ==
    /\ pc = "returned"
    /\ start_row = 0
    /\ Len(df.S3Path) = 3
    /\ outcome[1] = "ok" /\ outcome[2] # "ok" /\ outcome[3] = "ok"
    /\ \A r \in {1, 3} : \E key \in Range(Listing(RowProduct(r))) : OnDisk(key)

\* C3: download on a prefix whose listing is empty raises FileNotFoundError
\* and leaves the local files and directories as they were.
C3_EmptyListingRaises ==
    [][ (/\ pc = "download"
         /\ calls'[Len(calls')].ok
         /\ Listing(s3path) = <<>>)
        => /\ outcome' = Append(outcome, "FileNotFoundError")
           /\ fs' = fs
           /\ dirs' = dirs ]_vars

\* an empty listing raised FileNotFoundError after an earlier row had put
\* files on disk
C3_Witness ==
    /\ pc = "loop"
    /\ Len(outcome) >= 2
    /\ outcome[Len(outcome)] = "FileNotFoundError"
    /\ DOMAIN fs # {}

Announcements == SelectSeq(stdout, LAMBDA line : line[1] = "Descargando")

\* C6: the loop takes exactly the rows at positions start_row .. last, each
\* once and in table order; the index printed for a row is its position in
\* the table; nothing is listed or downloaded for a row before start_row.
C6_RowsFromStartInOrder ==
    /\ \A r \in 1..Len(Announcements) :
          /\ r <= RowsFromStart
          /\ Announcements[r] = <<"Descargando", RowProduct(r), RowPosition(r)>>
    /\ pc = "returned" => Len(Announcements) = RowsFromStart
    /\ Len(Announcements)
          = Len(outcome) + (IF pc \in {"download", "iterate", "object"} THEN 1 ELSE 0)
    /\ \A c \in 1..Len(calls) :
          /\ start_row <= calls[c].row /\ calls[c].row < Len(df.S3Path)
          /\ c > 1 => calls[c - 1].row <= calls[c].row
    /\ \A p \in 0..(Len(df.S3Path) - 1) :
          /\ Cardinality(RowCalls(p, "list")) <= 2
          /\ p < start_row =>
                \A f \in DOMAIN fs :
                    ~startswith(fs[f], remove_prefix(df.S3Path[p + 1], EODATA))
    /\ \A f \in DOMAIN fs : \E r \in 1..Len(Announcements) :
          startswith(fs[f], RowProduct(r))

\* a table of three rows was run from start_row 1 and its first row, whose
\* listing is not empty, was left alone
C6_Witness ==
    /\ pc = "returned"
    /\ start_row = 1
    /\ Len(df.S3Path) = 3
    /\ Len(Announcements) = 2
    /\ Listing(remove_prefix(df.S3Path[1], EODATA)) # <<>>
    /\ DOMAIN fs # {}

ExampleS3Path ==
    <<"/","e","o","d","a","t","a","/","S","e","n","t","i","n","e","l","-","2","/",".",".",".","/","S","2","B","_","M","S","I","L","1","C","_","2","0","2","4","0","4","3","0","T","1","5","3","6","0","9","_","N","0","5","1","0","_","R","1","1","0","_","T","1","7","Q","K","A",".","S","A","F","E","/","f","i","l","e","1",".","j","p","2">>

ExampleFile ==
    <<"o","u","t","/","S","2","B","_","M","S","I","L","1","C","_","2","0","2","4","0","4","3","0","T","1","5","3","6","0","9","_","N","0","5","1","0","_","R","1","1","0","_","T","1","7","Q","K","A","/","f","i","l","e","1",".","j","p","2">>

ExampleRun ==
    /\ df.S3Path = <<ExampleS3Path>>
    /\ start_row = 0
    /\ target_directory = <<"o","u","t","/">>
    /\ pc = "returned"
    /\ outcome = <<"ok">>

\* C7: every file written lies at <target>/<image_name>/<basename(key)>,
\* image_name being the name in the object's own key, inside a directory
\* that exists; the example row ends as out/S2B_..._T17QKA/file1.jp2.
C7_FilesUnderImageDirectory ==
    /\ \A f \in DOMAIN fs :
          /\ HasImageName(fs[f])
          /\ f = ExpectedPath(fs[f])
          /\ TargetSlash \o ImageNameOf(fs[f]) \in dirs
    /\ ExampleRun => DOMAIN fs = {ExampleFile}

\* the example run has ended with its file on disk
C7_Witness == ExampleRun /\ ExampleFile \in DOMAIN fs

\* the position in a listing of its first key without an image name, or 0
FirstUnmatched(listing) ==
    LET unmatched == {i \in 1..Len(listing) : ~HasImageName(listing[i])}
    IN  IF unmatched = {} THEN 0
        ELSE CHOOSE i \in unmatched : \A j \in unmatched : i <= j

\* C8: a listed key without an image name makes download raise ValueError
\* and ends the prefix there: no directory is made and nothing is downloaded
\* for that key or any key listed after it.
C8_UnmatchedKeyAborts ==
    \A r \in 1..Len(Announcements) :
        LET u == FirstUnmatched(Listing(RowProduct(r)))
            p == RowPosition(r)
        IN  u # 0 =>
              /\ \A c \in RowCalls(p, "download_file") \cup RowCalls(p, "makedirs") :
                    calls[c].obj < u
              /\ r <= Len(outcome) =>
                    /\ outcome[r] \in {"ValueError", "ClientError"}
                    /\ outcome[r] = "ValueError"
                          <=> \A c \in RowCalls(p, "list") \cup RowCalls(p, "download_file") :
                                 calls[c].ok

\* ValueError ended a prefix after an object of it had been downloaded and
\* before another one that has an image name
C8_Witness ==
    /\ pc = "loop"
    /\ Len(outcome) >= 1
    /\ outcome[Len(outcome)] = "ValueError"
    /\ LET listing == Listing(RowProduct(Len(outcome)))
           u == FirstUnmatched(listing)
       IN  /\ 1 < u /\ u < Len(listing)
           /\ OnDisk(listing[1])
           /\ HasImageName(listing[Len(listing)])
           /\ ~OnDisk(listing[Len(listing)])

\* the objects of the row at position p whose download failed
FailedObjects(p) == {calls[c].obj : c \in {d \in RowCalls(p, "download_file") : ~calls[d].ok}}

\* C9: a download that fails in the middle of a prefix is not caught inside
\* download: the row ends with that exception, the objects listed before the
\* failed one are on disk, no object listed after it is downloaded, and the
\* rows after that row are still taken.
C9_FailedObjectEndsPrefix ==
    /\ (\E c \in 1..Len(calls) : calls[c].op = "download_file" /\ ~calls[c].ok) =>
          /\ RunsToReturn
          /\ pc = "returned" => Len(outcome) = RowsFromStart
    /\ \A r \in 1..Len(outcome) :
          \A j \in FailedObjects(RowPosition(r)) :
              /\ outcome[r] = "ClientError"
              /\ \A i \in 1..(j - 1) : OnDisk(Listing(RowProduct(r))[i])
              /\ \A c \in RowCalls(RowPosition(r), "download_file") : calls[c].obj <= j

\* the second of three objects failed in a row that was not the last, and
\* the run went on to the end
C9_Witness ==
    /\ pc = "returned"
    /\ \E r \in 1..(Len(outcome) - 1) :
          /\ FailedObjects(RowPosition(r)) = {2}
          /\ Len(Listing(RowProduct(r))) = 3
          /\ OnDisk(Listing(RowProduct(r))[1])
          /\ ~OnDisk(Listing(RowProduct(r))[3])
          /\ outcome[r + 1] = "ok"

\* the keys of a listing that carry image name n
KeysOfImage(listing, n) ==
    {key \in Range(listing) : HasImageName(key) /\ ImageNameOf(key) = n}

FilesUnder(dir) == {f \in DOMAIN fs : startswith(f, dir \o SEP)}

\* C10: when a download has raised nothing, the files under
\* <target>/<image_name>/ are as many as the distinct basenames among the
\* listed keys of that image, and a file that several listed keys map to
\* holds the bytes of the one listed last.
C10_OneFilePerBasename ==
    (pc \in {"loop", "returned"} /\ Len(outcome) >= 1 /\ outcome[Len(outcome)] = "ok") =>
        LET listing == Listing(RowProduct(Len(outcome)))
        IN  \A i \in 1..Len(listing) :
                LET n == ImageNameOf(listing[i])
                    same == {j \in 1..Len(listing) :
                                /\ ImageNameOf(listing[j]) = n
                                /\ FileNameOfKey[listing[j]] = FileNameOfKey[listing[i]]}
                IN  /\ Cardinality(FilesUnder(TargetSlash \o n))
                          = Cardinality({FileNameOfKey[key] : key \in KeysOfImage(listing, n)})
                    /\ fs[ExpectedPath(listing[i])]
                          = listing[CHOOSE j \in same : \A m \in same : m <= j]

\* a prefix with two keys of one image and one basename was downloaded: the
\* files are fewer than the listed objects and the shared file holds the
\* later key
C10_Witness ==
    /\ pc = "loop"
    /\ Len(outcome) >= 1
    /\ outcome[Len(outcome)] = "ok"
    /\ LET listing == Listing(RowProduct(Len(outcome)))
       IN  /\ Len(listing) = 3
           /\ ExpectedPath(listing[1]) = ExpectedPath(listing[2])
           /\ fs[ExpectedPath(listing[1])] = listing[2]
           /\ Cardinality(FilesUnder(TargetSlash \o ImageNameOf(listing[1]))) = 2
====
